---------------------------- MODULE Spec2Model ----------------------------
(***************************************************************************)
(* Marching cubes mesh extraction (src/src/marching_cubes.rs).             *)
(*                                                                         *)
(* The extractor MarchingCubes {size, layers} is modelled as a state       *)
(* machine: one action per step of extract_impl (sampling a slice,         *)
(* classifying a cube, one edge lookup of a triangle, the cache rotations  *)
(* and the layer swap).  The field source, the topology tables and the     *)
(* IndexCache are collaborators of the extractor whose code is not part of *)
(* marching_cubes.rs; they are modelled from their documented contract.    *)
(*                                                                         *)
(* f32 values are modelled as exact rationals <<n, d>> with d >= 0; d = 0  *)
(* encodes the IEEE special values (<<1,0>> = +inf, <<-1,0>> = -inf,       *)
(* <<0,0>> = NaN), which is what 1.0 / 0 as f32 and 0 * inf produce.       *)
(***************************************************************************)
EXTENDS Integers, Sequences, FiniteSets, TLC

\* ------------------------------------------------------------------ bounds

\* Largest grid resolution handed to MarchingCubes::new.
MaxSize == 3

\* Number of extract calls made on one extractor instance.
MaxCalls == 2

\* The sources are the planes a*x + b*y + c*z = d/2 with a, b, c in
\* {-1, 0, 1} and d in -MaxLevel .. MaxLevel.
MaxLevel == 1

\* for i in 0..5: at most five triangles per cube.
MaxTriangles == 5

\* ------------------------------------------------------- f32 as rationals

RECURSIVE Gcd(_, _)
Gcd(a, b) == IF b = 0 THEN a ELSE Gcd(b, a % b)

Abs(n) == IF n < 0 THEN -n ELSE n

Sign(n) == IF n < 0 THEN -1 ELSE IF n > 0 THEN 1 ELSE 0

\* Canonical form: lowest terms, d >= 0; n/0 keeps only the sign of n.
Real(n, d) ==
    IF d = 0 THEN <<Sign(n), 0>>
    ELSE LET g == Gcd(Abs(n), Abs(d))
             s == Sign(d)
         IN  <<(s * n) \div g, (s * d) \div g>>

FromInt(n) == <<n, 1>>

IsNaN(r) == r[1] = 0 /\ r[2] = 0

Add(r, s) ==
    IF IsNaN(r) \/ IsNaN(s) THEN <<0, 0>>
    ELSE IF r[2] = 0 /\ s[2] = 0 THEN (IF r[1] = s[1] THEN r ELSE <<0, 0>>)
    ELSE IF r[2] = 0 THEN r
    ELSE IF s[2] = 0 THEN s
    ELSE Real(r[1] * s[2] + s[1] * r[2], r[2] * s[2])

Neg(r) == <<-r[1], r[2]>>

Sub(r, s) == Add(r, Neg(s))

Mul(r, s) == Real(r[1] * s[1], r[2] * s[2])

\* r / s; x / 0 is +-inf and 0 / 0 is NaN as in IEEE arithmetic.
Div(r, s) == Real(r[1] * s[2] * (IF s[1] < 0 THEN -1 ELSE 1), r[2] * Abs(s[1]))

\* r <= 0.0 (false for NaN)
LeZero(r) == ~IsNaN(r) /\ r[1] <= 0

\* ------------------------------------------------------------ the source

\* A Source is a pure function of the normalized point.
Sources ==
    [a : {-1, 0, 1}, b : {-1, 0, 1}, c : {-1, 0, 1}, d : (-MaxLevel) .. MaxLevel]

\* source.sample(x, y, z) = a*x + b*y + c*z - d/2
Sample(s, px, py, pz) ==
    Sub(Add(Add(Mul(FromInt(s.a), px), Mul(FromInt(s.b), py)),
            Mul(FromInt(s.c), pz)),
        Real(s.d, 2))

\* source.sample_normal(x, y, z): the gradient of the plane, anywhere.
SampleNormal(s, px, py, pz) == <<FromInt(s.a), FromInt(s.b), FromInt(s.c)>>

\* ------------------------------------------------------ topology tables

\* CORNERS[i]: the (0/1, 0/1, 0/1) offset of corner i from the cube origin.
CORNERS ==
    [i \in 0 .. 7 |->
        CASE i = 0 -> <<0, 0, 0>> [] i = 1 -> <<1, 0, 0>>
          [] i = 2 -> <<1, 1, 0>> [] i = 3 -> <<0, 1, 0>>
          [] i = 4 -> <<0, 0, 1>> [] i = 5 -> <<1, 0, 1>>
          [] i = 6 -> <<1, 1, 1>> [] i = 7 -> <<0, 1, 1>>]

\* EDGE_CONNECTION[e]: the two corners edge e connects.
EDGE_CONNECTION ==
    [e \in 0 .. 11 |->
        CASE e = 0 -> <<0, 1>> [] e = 1 -> <<1, 2>> [] e = 2  -> <<2, 3>>
          [] e = 3 -> <<3, 0>> [] e = 4 -> <<4, 5>> [] e = 5  -> <<5, 6>>
          [] e = 6 -> <<6, 7>> [] e = 7 -> <<7, 4>> [] e = 8  -> <<0, 4>>
          [] e = 9 -> <<1, 5>> [] e = 10 -> <<2, 6>> [] e = 11 -> <<3, 7>>]

\* TRIANGLE_CONNECTION[cube_index]: up to five triangles of three edge ids,
\* ended by -1 (row cube_index + 1, column k + 1 here: tuples count from 1).
TRIANGLE_CONNECTION ==
  <<
     <<-1, -1, -1, -1, -1, -1, -1, -1, -1, -1, -1, -1, -1, -1, -1, -1>>,
     <<0, 8, 3, -1, -1, -1, -1, -1, -1, -1, -1, -1, -1, -1, -1, -1>>,
     <<0, 1, 9, -1, -1, -1, -1, -1, -1, -1, -1, -1, -1, -1, -1, -1>>,
     <<1, 8, 3, 9, 8, 1, -1, -1, -1, -1, -1, -1, -1, -1, -1, -1>>,
     <<1, 2, 10, -1, -1, -1, -1, -1, -1, -1, -1, -1, -1, -1, -1, -1>>,
     <<0, 8, 3, 1, 2, 10, -1, -1, -1, -1, -1, -1, -1, -1, -1, -1>>,
     <<9, 2, 10, 0, 2, 9, -1, -1, -1, -1, -1, -1, -1, -1, -1, -1>>,
     <<2, 8, 3, 2, 10, 8, 10, 9, 8, -1, -1, -1, -1, -1, -1, -1>>,
     <<3, 11, 2, -1, -1, -1, -1, -1, -1, -1, -1, -1, -1, -1, -1, -1>>,
     <<0, 11, 2, 8, 11, 0, -1, -1, -1, -1, -1, -1, -1, -1, -1, -1>>,
     <<1, 9, 0, 2, 3, 11, -1, -1, -1, -1, -1, -1, -1, -1, -1, -1>>,
     <<1, 11, 2, 1, 9, 11, 9, 8, 11, -1, -1, -1, -1, -1, -1, -1>>,
     <<3, 10, 1, 11, 10, 3, -1, -1, -1, -1, -1, -1, -1, -1, -1, -1>>,
     <<0, 10, 1, 0, 8, 10, 8, 11, 10, -1, -1, -1, -1, -1, -1, -1>>,
     <<3, 9, 0, 3, 11, 9, 11, 10, 9, -1, -1, -1, -1, -1, -1, -1>>,
     <<9, 8, 10, 10, 8, 11, -1, -1, -1, -1, -1, -1, -1, -1, -1, -1>>,
     <<4, 7, 8, -1, -1, -1, -1, -1, -1, -1, -1, -1, -1, -1, -1, -1>>,
     <<4, 3, 0, 7, 3, 4, -1, -1, -1, -1, -1, -1, -1, -1, -1, -1>>,
     <<0, 1, 9, 8, 4, 7, -1, -1, -1, -1, -1, -1, -1, -1, -1, -1>>,
     <<4, 1, 9, 4, 7, 1, 7, 3, 1, -1, -1, -1, -1, -1, -1, -1>>,
     <<1, 2, 10, 8, 4, 7, -1, -1, -1, -1, -1, -1, -1, -1, -1, -1>>,
     <<3, 4, 7, 3, 0, 4, 1, 2, 10, -1, -1, -1, -1, -1, -1, -1>>,
     <<9, 2, 10, 9, 0, 2, 8, 4, 7, -1, -1, -1, -1, -1, -1, -1>>,
     <<2, 10, 9, 2, 9, 7, 2, 7, 3, 7, 9, 4, -1, -1, -1, -1>>,
     <<8, 4, 7, 3, 11, 2, -1, -1, -1, -1, -1, -1, -1, -1, -1, -1>>,
     <<11, 4, 7, 11, 2, 4, 2, 0, 4, -1, -1, -1, -1, -1, -1, -1>>,
     <<9, 0, 1, 8, 4, 7, 2, 3, 11, -1, -1, -1, -1, -1, -1, -1>>,
     <<4, 7, 11, 9, 4, 11, 9, 11, 2, 9, 2, 1, -1, -1, -1, -1>>,
     <<3, 10, 1, 3, 11, 10, 7, 8, 4, -1, -1, -1, -1, -1, -1, -1>>,
     <<1, 11, 10, 1, 4, 11, 1, 0, 4, 7, 11, 4, -1, -1, -1, -1>>,
     <<4, 7, 8, 9, 0, 11, 9, 11, 10, 11, 0, 3, -1, -1, -1, -1>>,
     <<4, 7, 11, 4, 11, 9, 9, 11, 10, -1, -1, -1, -1, -1, -1, -1>>,
     <<9, 5, 4, -1, -1, -1, -1, -1, -1, -1, -1, -1, -1, -1, -1, -1>>,
     <<9, 5, 4, 0, 8, 3, -1, -1, -1, -1, -1, -1, -1, -1, -1, -1>>,
     <<0, 5, 4, 1, 5, 0, -1, -1, -1, -1, -1, -1, -1, -1, -1, -1>>,
     <<8, 5, 4, 8, 3, 5, 3, 1, 5, -1, -1, -1, -1, -1, -1, -1>>,
     <<1, 2, 10, 9, 5, 4, -1, -1, -1, -1, -1, -1, -1, -1, -1, -1>>,
     <<3, 0, 8, 1, 2, 10, 4, 9, 5, -1, -1, -1, -1, -1, -1, -1>>,
     <<5, 2, 10, 5, 4, 2, 4, 0, 2, -1, -1, -1, -1, -1, -1, -1>>,
     <<2, 10, 5, 3, 2, 5, 3, 5, 4, 3, 4, 8, -1, -1, -1, -1>>,
     <<9, 5, 4, 2, 3, 11, -1, -1, -1, -1, -1, -1, -1, -1, -1, -1>>,
     <<0, 11, 2, 0, 8, 11, 4, 9, 5, -1, -1, -1, -1, -1, -1, -1>>,
     <<0, 5, 4, 0, 1, 5, 2, 3, 11, -1, -1, -1, -1, -1, -1, -1>>,
     <<2, 1, 5, 2, 5, 8, 2, 8, 11, 4, 8, 5, -1, -1, -1, -1>>,
     <<10, 3, 11, 10, 1, 3, 9, 5, 4, -1, -1, -1, -1, -1, -1, -1>>,
     <<4, 9, 5, 0, 8, 1, 8, 10, 1, 8, 11, 10, -1, -1, -1, -1>>,
     <<5, 4, 0, 5, 0, 11, 5, 11, 10, 11, 0, 3, -1, -1, -1, -1>>,
     <<5, 4, 8, 5, 8, 10, 10, 8, 11, -1, -1, -1, -1, -1, -1, -1>>,
     <<9, 7, 8, 5, 7, 9, -1, -1, -1, -1, -1, -1, -1, -1, -1, -1>>,
     <<9, 3, 0, 9, 5, 3, 5, 7, 3, -1, -1, -1, -1, -1, -1, -1>>,
     <<0, 7, 8, 0, 1, 7, 1, 5, 7, -1, -1, -1, -1, -1, -1, -1>>,
     <<1, 5, 3, 3, 5, 7, -1, -1, -1, -1, -1, -1, -1, -1, -1, -1>>,
     <<9, 7, 8, 9, 5, 7, 10, 1, 2, -1, -1, -1, -1, -1, -1, -1>>,
     <<10, 1, 2, 9, 5, 0, 5, 3, 0, 5, 7, 3, -1, -1, -1, -1>>,
     <<8, 0, 2, 8, 2, 5, 8, 5, 7, 10, 5, 2, -1, -1, -1, -1>>,
     <<2, 10, 5, 2, 5, 3, 3, 5, 7, -1, -1, -1, -1, -1, -1, -1>>,
     <<7, 9, 5, 7, 8, 9, 3, 11, 2, -1, -1, -1, -1, -1, -1, -1>>,
     <<9, 5, 7, 9, 7, 2, 9, 2, 0, 2, 7, 11, -1, -1, -1, -1>>,
     <<2, 3, 11, 0, 1, 8, 1, 7, 8, 1, 5, 7, -1, -1, -1, -1>>,
     <<11, 2, 1, 11, 1, 7, 7, 1, 5, -1, -1, -1, -1, -1, -1, -1>>,
     <<9, 5, 8, 8, 5, 7, 10, 1, 3, 10, 3, 11, -1, -1, -1, -1>>,
     <<5, 7, 0, 5, 0, 9, 7, 11, 0, 1, 0, 10, 11, 10, 0, -1>>,
     <<11, 10, 0, 11, 0, 3, 10, 5, 0, 8, 0, 7, 5, 7, 0, -1>>,
     <<11, 10, 5, 7, 11, 5, -1, -1, -1, -1, -1, -1, -1, -1, -1, -1>>,
     <<10, 6, 5, -1, -1, -1, -1, -1, -1, -1, -1, -1, -1, -1, -1, -1>>,
     <<0, 8, 3, 5, 10, 6, -1, -1, -1, -1, -1, -1, -1, -1, -1, -1>>,
     <<9, 0, 1, 5, 10, 6, -1, -1, -1, -1, -1, -1, -1, -1, -1, -1>>,
     <<1, 8, 3, 1, 9, 8, 5, 10, 6, -1, -1, -1, -1, -1, -1, -1>>,
     <<1, 6, 5, 2, 6, 1, -1, -1, -1, -1, -1, -1, -1, -1, -1, -1>>,
     <<1, 6, 5, 1, 2, 6, 3, 0, 8, -1, -1, -1, -1, -1, -1, -1>>,
     <<9, 6, 5, 9, 0, 6, 0, 2, 6, -1, -1, -1, -1, -1, -1, -1>>,
     <<5, 9, 8, 5, 8, 2, 5, 2, 6, 3, 2, 8, -1, -1, -1, -1>>,
     <<2, 3, 11, 10, 6, 5, -1, -1, -1, -1, -1, -1, -1, -1, -1, -1>>,
     <<11, 0, 8, 11, 2, 0, 10, 6, 5, -1, -1, -1, -1, -1, -1, -1>>,
     <<0, 1, 9, 2, 3, 11, 5, 10, 6, -1, -1, -1, -1, -1, -1, -1>>,
     <<5, 10, 6, 1, 9, 2, 9, 11, 2, 9, 8, 11, -1, -1, -1, -1>>,
     <<6, 3, 11, 6, 5, 3, 5, 1, 3, -1, -1, -1, -1, -1, -1, -1>>,
     <<0, 8, 11, 0, 11, 5, 0, 5, 1, 5, 11, 6, -1, -1, -1, -1>>,
     <<3, 11, 6, 0, 3, 6, 0, 6, 5, 0, 5, 9, -1, -1, -1, -1>>,
     <<6, 5, 9, 6, 9, 11, 11, 9, 8, -1, -1, -1, -1, -1, -1, -1>>,
     <<5, 10, 6, 4, 7, 8, -1, -1, -1, -1, -1, -1, -1, -1, -1, -1>>,
     <<4, 3, 0, 4, 7, 3, 6, 5, 10, -1, -1, -1, -1, -1, -1, -1>>,
     <<1, 9, 0, 5, 10, 6, 8, 4, 7, -1, -1, -1, -1, -1, -1, -1>>,
     <<10, 6, 5, 1, 9, 7, 1, 7, 3, 7, 9, 4, -1, -1, -1, -1>>,
     <<6, 1, 2, 6, 5, 1, 4, 7, 8, -1, -1, -1, -1, -1, -1, -1>>,
     <<1, 2, 5, 5, 2, 6, 3, 0, 4, 3, 4, 7, -1, -1, -1, -1>>,
     <<8, 4, 7, 9, 0, 5, 0, 6, 5, 0, 2, 6, -1, -1, -1, -1>>,
     <<7, 3, 9, 7, 9, 4, 3, 2, 9, 5, 9, 6, 2, 6, 9, -1>>,
     <<3, 11, 2, 7, 8, 4, 10, 6, 5, -1, -1, -1, -1, -1, -1, -1>>,
     <<5, 10, 6, 4, 7, 2, 4, 2, 0, 2, 7, 11, -1, -1, -1, -1>>,
     <<0, 1, 9, 4, 7, 8, 2, 3, 11, 5, 10, 6, -1, -1, -1, -1>>,
     <<9, 2, 1, 9, 11, 2, 9, 4, 11, 7, 11, 4, 5, 10, 6, -1>>,
     <<8, 4, 7, 3, 11, 5, 3, 5, 1, 5, 11, 6, -1, -1, -1, -1>>,
     <<5, 1, 11, 5, 11, 6, 1, 0, 11, 7, 11, 4, 0, 4, 11, -1>>,
     <<0, 5, 9, 0, 6, 5, 0, 3, 6, 11, 6, 3, 8, 4, 7, -1>>,
     <<6, 5, 9, 6, 9, 11, 4, 7, 9, 7, 11, 9, -1, -1, -1, -1>>,
     <<10, 4, 9, 6, 4, 10, -1, -1, -1, -1, -1, -1, -1, -1, -1, -1>>,
     <<4, 10, 6, 4, 9, 10, 0, 8, 3, -1, -1, -1, -1, -1, -1, -1>>,
     <<10, 0, 1, 10, 6, 0, 6, 4, 0, -1, -1, -1, -1, -1, -1, -1>>,
     <<8, 3, 1, 8, 1, 6, 8, 6, 4, 6, 1, 10, -1, -1, -1, -1>>,
     <<1, 4, 9, 1, 2, 4, 2, 6, 4, -1, -1, -1, -1, -1, -1, -1>>,
     <<3, 0, 8, 1, 2, 9, 2, 4, 9, 2, 6, 4, -1, -1, -1, -1>>,
     <<0, 2, 4, 4, 2, 6, -1, -1, -1, -1, -1, -1, -1, -1, -1, -1>>,
     <<8, 3, 2, 8, 2, 4, 4, 2, 6, -1, -1, -1, -1, -1, -1, -1>>,
     <<10, 4, 9, 10, 6, 4, 11, 2, 3, -1, -1, -1, -1, -1, -1, -1>>,
     <<0, 8, 2, 2, 8, 11, 4, 9, 10, 4, 10, 6, -1, -1, -1, -1>>,
     <<3, 11, 2, 0, 1, 6, 0, 6, 4, 6, 1, 10, -1, -1, -1, -1>>,
     <<6, 4, 1, 6, 1, 10, 4, 8, 1, 2, 1, 11, 8, 11, 1, -1>>,
     <<9, 6, 4, 9, 3, 6, 9, 1, 3, 11, 6, 3, -1, -1, -1, -1>>,
     <<8, 11, 1, 8, 1, 0, 11, 6, 1, 9, 1, 4, 6, 4, 1, -1>>,
     <<3, 11, 6, 3, 6, 0, 0, 6, 4, -1, -1, -1, -1, -1, -1, -1>>,
     <<6, 4, 8, 11, 6, 8, -1, -1, -1, -1, -1, -1, -1, -1, -1, -1>>,
     <<7, 10, 6, 7, 8, 10, 8, 9, 10, -1, -1, -1, -1, -1, -1, -1>>,
     <<0, 7, 3, 0, 10, 7, 0, 9, 10, 6, 7, 10, -1, -1, -1, -1>>,
     <<10, 6, 7, 1, 10, 7, 1, 7, 8, 1, 8, 0, -1, -1, -1, -1>>,
     <<10, 6, 7, 10, 7, 1, 1, 7, 3, -1, -1, -1, -1, -1, -1, -1>>,
     <<1, 2, 6, 1, 6, 8, 1, 8, 9, 8, 6, 7, -1, -1, -1, -1>>,
     <<2, 6, 9, 2, 9, 1, 6, 7, 9, 0, 9, 3, 7, 3, 9, -1>>,
     <<7, 8, 0, 7, 0, 6, 6, 0, 2, -1, -1, -1, -1, -1, -1, -1>>,
     <<7, 3, 2, 6, 7, 2, -1, -1, -1, -1, -1, -1, -1, -1, -1, -1>>,
     <<2, 3, 11, 10, 6, 8, 10, 8, 9, 8, 6, 7, -1, -1, -1, -1>>,
     <<2, 0, 7, 2, 7, 11, 0, 9, 7, 6, 7, 10, 9, 10, 7, -1>>,
     <<1, 8, 0, 1, 7, 8, 1, 10, 7, 6, 7, 10, 2, 3, 11, -1>>,
     <<11, 2, 1, 11, 1, 7, 10, 6, 1, 6, 7, 1, -1, -1, -1, -1>>,
     <<8, 9, 6, 8, 6, 7, 9, 1, 6, 11, 6, 3, 1, 3, 6, -1>>,
     <<0, 9, 1, 11, 6, 7, -1, -1, -1, -1, -1, -1, -1, -1, -1, -1>>,
     <<7, 8, 0, 7, 0, 6, 3, 11, 0, 11, 6, 0, -1, -1, -1, -1>>,
     <<7, 11, 6, -1, -1, -1, -1, -1, -1, -1, -1, -1, -1, -1, -1, -1>>,
     <<7, 6, 11, -1, -1, -1, -1, -1, -1, -1, -1, -1, -1, -1, -1, -1>>,
     <<3, 0, 8, 11, 7, 6, -1, -1, -1, -1, -1, -1, -1, -1, -1, -1>>,
     <<0, 1, 9, 11, 7, 6, -1, -1, -1, -1, -1, -1, -1, -1, -1, -1>>,
     <<8, 1, 9, 8, 3, 1, 11, 7, 6, -1, -1, -1, -1, -1, -1, -1>>,
     <<10, 1, 2, 6, 11, 7, -1, -1, -1, -1, -1, -1, -1, -1, -1, -1>>,
     <<1, 2, 10, 3, 0, 8, 6, 11, 7, -1, -1, -1, -1, -1, -1, -1>>,
     <<2, 9, 0, 2, 10, 9, 6, 11, 7, -1, -1, -1, -1, -1, -1, -1>>,
     <<6, 11, 7, 2, 10, 3, 10, 8, 3, 10, 9, 8, -1, -1, -1, -1>>,
     <<7, 2, 3, 6, 2, 7, -1, -1, -1, -1, -1, -1, -1, -1, -1, -1>>,
     <<7, 0, 8, 7, 6, 0, 6, 2, 0, -1, -1, -1, -1, -1, -1, -1>>,
     <<2, 7, 6, 2, 3, 7, 0, 1, 9, -1, -1, -1, -1, -1, -1, -1>>,
     <<1, 6, 2, 1, 8, 6, 1, 9, 8, 8, 7, 6, -1, -1, -1, -1>>,
     <<10, 7, 6, 10, 1, 7, 1, 3, 7, -1, -1, -1, -1, -1, -1, -1>>,
     <<10, 7, 6, 1, 7, 10, 1, 8, 7, 1, 0, 8, -1, -1, -1, -1>>,
     <<0, 3, 7, 0, 7, 10, 0, 10, 9, 6, 10, 7, -1, -1, -1, -1>>,
     <<7, 6, 10, 7, 10, 8, 8, 10, 9, -1, -1, -1, -1, -1, -1, -1>>,
     <<6, 8, 4, 11, 8, 6, -1, -1, -1, -1, -1, -1, -1, -1, -1, -1>>,
     <<3, 6, 11, 3, 0, 6, 0, 4, 6, -1, -1, -1, -1, -1, -1, -1>>,
     <<8, 6, 11, 8, 4, 6, 9, 0, 1, -1, -1, -1, -1, -1, -1, -1>>,
     <<9, 4, 6, 9, 6, 3, 9, 3, 1, 11, 3, 6, -1, -1, -1, -1>>,
     <<6, 8, 4, 6, 11, 8, 2, 10, 1, -1, -1, -1, -1, -1, -1, -1>>,
     <<1, 2, 10, 3, 0, 11, 0, 6, 11, 0, 4, 6, -1, -1, -1, -1>>,
     <<4, 11, 8, 4, 6, 11, 0, 2, 9, 2, 10, 9, -1, -1, -1, -1>>,
     <<10, 9, 3, 10, 3, 2, 9, 4, 3, 11, 3, 6, 4, 6, 3, -1>>,
     <<8, 2, 3, 8, 4, 2, 4, 6, 2, -1, -1, -1, -1, -1, -1, -1>>,
     <<0, 4, 2, 4, 6, 2, -1, -1, -1, -1, -1, -1, -1, -1, -1, -1>>,
     <<1, 9, 0, 2, 3, 4, 2, 4, 6, 4, 3, 8, -1, -1, -1, -1>>,
     <<1, 9, 4, 1, 4, 2, 2, 4, 6, -1, -1, -1, -1, -1, -1, -1>>,
     <<8, 1, 3, 8, 6, 1, 8, 4, 6, 6, 10, 1, -1, -1, -1, -1>>,
     <<10, 1, 0, 10, 0, 6, 6, 0, 4, -1, -1, -1, -1, -1, -1, -1>>,
     <<4, 6, 3, 4, 3, 8, 6, 10, 3, 0, 3, 9, 10, 9, 3, -1>>,
     <<10, 9, 4, 6, 10, 4, -1, -1, -1, -1, -1, -1, -1, -1, -1, -1>>,
     <<4, 9, 5, 7, 6, 11, -1, -1, -1, -1, -1, -1, -1, -1, -1, -1>>,
     <<0, 8, 3, 4, 9, 5, 11, 7, 6, -1, -1, -1, -1, -1, -1, -1>>,
     <<5, 0, 1, 5, 4, 0, 7, 6, 11, -1, -1, -1, -1, -1, -1, -1>>,
     <<11, 7, 6, 8, 3, 4, 3, 5, 4, 3, 1, 5, -1, -1, -1, -1>>,
     <<9, 5, 4, 10, 1, 2, 7, 6, 11, -1, -1, -1, -1, -1, -1, -1>>,
     <<6, 11, 7, 1, 2, 10, 0, 8, 3, 4, 9, 5, -1, -1, -1, -1>>,
     <<7, 6, 11, 5, 4, 10, 4, 2, 10, 4, 0, 2, -1, -1, -1, -1>>,
     <<3, 4, 8, 3, 5, 4, 3, 2, 5, 10, 5, 2, 11, 7, 6, -1>>,
     <<7, 2, 3, 7, 6, 2, 5, 4, 9, -1, -1, -1, -1, -1, -1, -1>>,
     <<9, 5, 4, 0, 8, 6, 0, 6, 2, 6, 8, 7, -1, -1, -1, -1>>,
     <<3, 6, 2, 3, 7, 6, 1, 5, 0, 5, 4, 0, -1, -1, -1, -1>>,
     <<6, 2, 8, 6, 8, 7, 2, 1, 8, 4, 8, 5, 1, 5, 8, -1>>,
     <<9, 5, 4, 10, 1, 6, 1, 7, 6, 1, 3, 7, -1, -1, -1, -1>>,
     <<1, 6, 10, 1, 7, 6, 1, 0, 7, 8, 7, 0, 9, 5, 4, -1>>,
     <<4, 0, 10, 4, 10, 5, 0, 3, 10, 6, 10, 7, 3, 7, 10, -1>>,
     <<7, 6, 10, 7, 10, 8, 5, 4, 10, 4, 8, 10, -1, -1, -1, -1>>,
     <<6, 9, 5, 6, 11, 9, 11, 8, 9, -1, -1, -1, -1, -1, -1, -1>>,
     <<3, 6, 11, 0, 6, 3, 0, 5, 6, 0, 9, 5, -1, -1, -1, -1>>,
     <<0, 11, 8, 0, 5, 11, 0, 1, 5, 5, 6, 11, -1, -1, -1, -1>>,
     <<6, 11, 3, 6, 3, 5, 5, 3, 1, -1, -1, -1, -1, -1, -1, -1>>,
     <<1, 2, 10, 9, 5, 11, 9, 11, 8, 11, 5, 6, -1, -1, -1, -1>>,
     <<0, 11, 3, 0, 6, 11, 0, 9, 6, 5, 6, 9, 1, 2, 10, -1>>,
     <<11, 8, 5, 11, 5, 6, 8, 0, 5, 10, 5, 2, 0, 2, 5, -1>>,
     <<6, 11, 3, 6, 3, 5, 2, 10, 3, 10, 5, 3, -1, -1, -1, -1>>,
     <<5, 8, 9, 5, 2, 8, 5, 6, 2, 3, 8, 2, -1, -1, -1, -1>>,
     <<9, 5, 6, 9, 6, 0, 0, 6, 2, -1, -1, -1, -1, -1, -1, -1>>,
     <<1, 5, 8, 1, 8, 0, 5, 6, 8, 3, 8, 2, 6, 2, 8, -1>>,
     <<1, 5, 6, 2, 1, 6, -1, -1, -1, -1, -1, -1, -1, -1, -1, -1>>,
     <<1, 3, 6, 1, 6, 10, 3, 8, 6, 5, 6, 9, 8, 9, 6, -1>>,
     <<10, 1, 0, 10, 0, 6, 9, 5, 0, 5, 6, 0, -1, -1, -1, -1>>,
     <<0, 3, 8, 5, 6, 10, -1, -1, -1, -1, -1, -1, -1, -1, -1, -1>>,
     <<10, 5, 6, -1, -1, -1, -1, -1, -1, -1, -1, -1, -1, -1, -1, -1>>,
     <<11, 5, 10, 7, 5, 11, -1, -1, -1, -1, -1, -1, -1, -1, -1, -1>>,
     <<11, 5, 10, 11, 7, 5, 8, 3, 0, -1, -1, -1, -1, -1, -1, -1>>,
     <<5, 11, 7, 5, 10, 11, 1, 9, 0, -1, -1, -1, -1, -1, -1, -1>>,
     <<10, 7, 5, 10, 11, 7, 9, 8, 1, 8, 3, 1, -1, -1, -1, -1>>,
     <<11, 1, 2, 11, 7, 1, 7, 5, 1, -1, -1, -1, -1, -1, -1, -1>>,
     <<0, 8, 3, 1, 2, 7, 1, 7, 5, 7, 2, 11, -1, -1, -1, -1>>,
     <<9, 7, 5, 9, 2, 7, 9, 0, 2, 2, 11, 7, -1, -1, -1, -1>>,
     <<7, 5, 2, 7, 2, 11, 5, 9, 2, 3, 2, 8, 9, 8, 2, -1>>,
     <<2, 5, 10, 2, 3, 5, 3, 7, 5, -1, -1, -1, -1, -1, -1, -1>>,
     <<8, 2, 0, 8, 5, 2, 8, 7, 5, 10, 2, 5, -1, -1, -1, -1>>,
     <<9, 0, 1, 5, 10, 3, 5, 3, 7, 3, 10, 2, -1, -1, -1, -1>>,
     <<9, 8, 2, 9, 2, 1, 8, 7, 2, 10, 2, 5, 7, 5, 2, -1>>,
     <<1, 3, 5, 3, 7, 5, -1, -1, -1, -1, -1, -1, -1, -1, -1, -1>>,
     <<0, 8, 7, 0, 7, 1, 1, 7, 5, -1, -1, -1, -1, -1, -1, -1>>,
     <<9, 0, 3, 9, 3, 5, 5, 3, 7, -1, -1, -1, -1, -1, -1, -1>>,
     <<9, 8, 7, 5, 9, 7, -1, -1, -1, -1, -1, -1, -1, -1, -1, -1>>,
     <<5, 8, 4, 5, 10, 8, 10, 11, 8, -1, -1, -1, -1, -1, -1, -1>>,
     <<5, 0, 4, 5, 11, 0, 5, 10, 11, 11, 3, 0, -1, -1, -1, -1>>,
     <<0, 1, 9, 8, 4, 10, 8, 10, 11, 10, 4, 5, -1, -1, -1, -1>>,
     <<10, 11, 4, 10, 4, 5, 11, 3, 4, 9, 4, 1, 3, 1, 4, -1>>,
     <<2, 5, 1, 2, 8, 5, 2, 11, 8, 4, 5, 8, -1, -1, -1, -1>>,
     <<0, 4, 11, 0, 11, 3, 4, 5, 11, 2, 11, 1, 5, 1, 11, -1>>,
     <<0, 2, 5, 0, 5, 9, 2, 11, 5, 4, 5, 8, 11, 8, 5, -1>>,
     <<9, 4, 5, 2, 11, 3, -1, -1, -1, -1, -1, -1, -1, -1, -1, -1>>,
     <<2, 5, 10, 3, 5, 2, 3, 4, 5, 3, 8, 4, -1, -1, -1, -1>>,
     <<5, 10, 2, 5, 2, 4, 4, 2, 0, -1, -1, -1, -1, -1, -1, -1>>,
     <<3, 10, 2, 3, 5, 10, 3, 8, 5, 4, 5, 8, 0, 1, 9, -1>>,
     <<5, 10, 2, 5, 2, 4, 1, 9, 2, 9, 4, 2, -1, -1, -1, -1>>,
     <<8, 4, 5, 8, 5, 3, 3, 5, 1, -1, -1, -1, -1, -1, -1, -1>>,
     <<0, 4, 5, 1, 0, 5, -1, -1, -1, -1, -1, -1, -1, -1, -1, -1>>,
     <<8, 4, 5, 8, 5, 3, 9, 0, 5, 0, 3, 5, -1, -1, -1, -1>>,
     <<9, 4, 5, -1, -1, -1, -1, -1, -1, -1, -1, -1, -1, -1, -1, -1>>,
     <<4, 11, 7, 4, 9, 11, 9, 10, 11, -1, -1, -1, -1, -1, -1, -1>>,
     <<0, 8, 3, 4, 9, 7, 9, 11, 7, 9, 10, 11, -1, -1, -1, -1>>,
     <<1, 10, 11, 1, 11, 4, 1, 4, 0, 7, 4, 11, -1, -1, -1, -1>>,
     <<3, 1, 4, 3, 4, 8, 1, 10, 4, 7, 4, 11, 10, 11, 4, -1>>,
     <<4, 11, 7, 9, 11, 4, 9, 2, 11, 9, 1, 2, -1, -1, -1, -1>>,
     <<9, 7, 4, 9, 11, 7, 9, 1, 11, 2, 11, 1, 0, 8, 3, -1>>,
     <<11, 7, 4, 11, 4, 2, 2, 4, 0, -1, -1, -1, -1, -1, -1, -1>>,
     <<11, 7, 4, 11, 4, 2, 8, 3, 4, 3, 2, 4, -1, -1, -1, -1>>,
     <<2, 9, 10, 2, 7, 9, 2, 3, 7, 7, 4, 9, -1, -1, -1, -1>>,
     <<9, 10, 7, 9, 7, 4, 10, 2, 7, 8, 7, 0, 2, 0, 7, -1>>,
     <<3, 7, 10, 3, 10, 2, 7, 4, 10, 1, 10, 0, 4, 0, 10, -1>>,
     <<1, 10, 2, 8, 7, 4, -1, -1, -1, -1, -1, -1, -1, -1, -1, -1>>,
     <<4, 9, 1, 4, 1, 7, 7, 1, 3, -1, -1, -1, -1, -1, -1, -1>>,
     <<4, 9, 1, 4, 1, 7, 0, 8, 1, 8, 7, 1, -1, -1, -1, -1>>,
     <<4, 0, 3, 7, 4, 3, -1, -1, -1, -1, -1, -1, -1, -1, -1, -1>>,
     <<4, 8, 7, -1, -1, -1, -1, -1, -1, -1, -1, -1, -1, -1, -1, -1>>,
     <<9, 10, 8, 10, 11, 8, -1, -1, -1, -1, -1, -1, -1, -1, -1, -1>>,
     <<3, 0, 9, 3, 9, 11, 11, 9, 10, -1, -1, -1, -1, -1, -1, -1>>,
     <<0, 1, 10, 0, 10, 8, 8, 10, 11, -1, -1, -1, -1, -1, -1, -1>>,
     <<3, 1, 10, 11, 3, 10, -1, -1, -1, -1, -1, -1, -1, -1, -1, -1>>,
     <<1, 2, 11, 1, 11, 9, 9, 11, 8, -1, -1, -1, -1, -1, -1, -1>>,
     <<3, 0, 9, 3, 9, 11, 1, 2, 9, 2, 11, 9, -1, -1, -1, -1>>,
     <<0, 2, 11, 8, 0, 11, -1, -1, -1, -1, -1, -1, -1, -1, -1, -1>>,
     <<3, 2, 11, -1, -1, -1, -1, -1, -1, -1, -1, -1, -1, -1, -1, -1>>,
     <<2, 3, 8, 2, 8, 10, 10, 8, 9, -1, -1, -1, -1, -1, -1, -1>>,
     <<9, 10, 2, 0, 9, 2, -1, -1, -1, -1, -1, -1, -1, -1, -1, -1>>,
     <<2, 3, 8, 2, 8, 10, 0, 1, 8, 1, 10, 8, -1, -1, -1, -1>>,
     <<1, 10, 2, -1, -1, -1, -1, -1, -1, -1, -1, -1, -1, -1, -1, -1>>,
     <<1, 3, 8, 9, 1, 8, -1, -1, -1, -1, -1, -1, -1, -1, -1, -1>>,
     <<0, 9, 1, -1, -1, -1, -1, -1, -1, -1, -1, -1, -1, -1, -1, -1>>,
     <<0, 3, 8, -1, -1, -1, -1, -1, -1, -1, -1, -1, -1, -1, -1, -1>>,
     <<-1, -1, -1, -1, -1, -1, -1, -1, -1, -1, -1, -1, -1, -1, -1, -1>>
  >>

\* ---------------------------------------------------------- IndexCache
\* The vertex deduplication cache (index_cache::IndexCache).  Index 0 is
\* what an empty slot holds, so get answers 0 for "no cached vertex".
\*
\*   current_cell[e]      the edges of the cube being triangulated
\*   cells[k][e]          edges 1, 5, 9, 10 (the x+1 face) of the previous
\*                        (k = 1) and the current (k = 2) cube of the row
\*   rows[k][x][e]        edges 2, 6, 10, 11 (the y+1 face) of the cubes of
\*                        the previous and the current row
\*   layers[k][c][e - 4]  edges 4..7 (the z+1 face) of the cubes of the
\*                        previous and the current layer, c = y*size + x

RowEdges == {2, 6, 10, 11}

CellEdges == {1, 5, 9, 10}

EmptyRow(size) == [x \in 0 .. size - 1 |-> [e \in RowEdges |-> 0]]

EmptyLayer(size) == [c \in 0 .. size * size - 1 |-> [e \in 0 .. 3 |-> 0]]

EmptyCell == [e \in CellEdges |-> 0]

\* IndexCache::new(size)
IndexCacheNew(size) ==
    [layers       |-> <<EmptyLayer(size), EmptyLayer(size)>>,
     rows         |-> <<EmptyRow(size), EmptyRow(size)>>,
     cells        |-> <<EmptyCell, EmptyCell>>,
     current_cell |-> [e \in 0 .. 11 |-> 0]]

\* IndexCache::put(x, y, edge, index)
IndexCachePut(cache, size, x, y, edge, index) ==
    [layers |->
        IF edge \in 4 .. 7
        THEN [cache.layers EXCEPT ![2][y * size + x][edge - 4] = index]
        ELSE cache.layers,
     rows |->
        IF edge \in RowEdges
        THEN [cache.rows EXCEPT ![2][x][edge] = index]
        ELSE cache.rows,
     cells |->
        IF edge \in CellEdges
        THEN [cache.cells EXCEPT ![2][edge] = index]
        ELSE cache.cells,
     current_cell |-> [cache.current_cell EXCEPT ![edge] = index]]

\* The edge of the cube one row back (same x) that is edge e of this cube.
RowSource(e) ==
    CASE e = 0 -> 2 [] e = 4 -> 6 [] e = 8 -> 11 [] e = 9 -> 10

\* The edge of the previous cube of the row that is edge e of this cube.
CellSource(e) ==
    CASE e = 3 -> 1 [] e = 7 -> 5 [] e = 8 -> 9 [] e = 11 -> 10

\* The slots that can hold the vertex of edge `edge` of cube (x, y), in the
\* order the cubes that own them were visited.
IndexCacheSlots(cache, size, x, y, edge) ==
       (IF edge = 0 /\ y > 0
        THEN <<cache.layers[1][(y - 1) * size + x][2]>> ELSE <<>>)
    \o (IF edge = 3 /\ x > 0
        THEN <<cache.layers[1][y * size + x - 1][1]>> ELSE <<>>)
    \o (IF edge \in 0 .. 3
        THEN <<cache.layers[1][y * size + x][edge]>> ELSE <<>>)
    \o (IF edge = 8 /\ x > 0 /\ y > 0
        THEN <<cache.rows[1][x - 1][10]>> ELSE <<>>)
    \o (IF edge \in {0, 4, 8, 9} /\ y > 0
        THEN <<cache.rows[1][x][RowSource(edge)]>> ELSE <<>>)
    \o (IF edge \in {3, 7, 8, 11} /\ x > 0
        THEN <<cache.cells[1][CellSource(edge)]>> ELSE <<>>)
    \o <<cache.current_cell[edge]>>

RECURSIVE FirstNonZero(_)
FirstNonZero(s) ==
    IF s = <<>> THEN 0
    ELSE IF Head(s) # 0 THEN Head(s) ELSE FirstNonZero(Tail(s))

\* IndexCache::get(x, y, edge): the cached index, 0 when there is none.
IndexCacheGet(cache, size, x, y, edge) ==
    FirstNonZero(IndexCacheSlots(cache, size, x, y, edge))

\* IndexCache::advance_cell()
IndexCacheAdvanceCell(cache) ==
    [cache EXCEPT !.cells = <<cache.cells[2], EmptyCell>>,
                  !.current_cell = [e \in 0 .. 11 |-> 0]]

\* IndexCache::advance_row()
IndexCacheAdvanceRow(cache, size) ==
    [cache EXCEPT !.rows = <<cache.rows[2], EmptyRow(size)>>,
                  !.cells = <<EmptyCell, EmptyCell>>]

\* IndexCache::advance_layer()
IndexCacheAdvanceLayer(cache, size) ==
    [cache EXCEPT !.layers = <<cache.layers[2], EmptyLayer(size)>>,
                  !.rows = <<EmptyRow(size), EmptyRow(size)>>,
                  !.cells = <<EmptyCell, EmptyCell>>]

\* ------------------------------------------------ marching_cubes.rs

\* fn get_offset(a, b)
get_offset(a, b) ==
    LET delta == Sub(b, a)
    IN  IF delta = <<0, 1>> THEN Real(1, 2) ELSE Div(Neg(a), delta)

\* fn interpolate(a, b, t)
interpolate(a, b, t) == Add(Mul(a, Sub(FromInt(1), t)), Mul(b, t))

\* let size_minus_one = self.size - 1 (size >= 1: 0 - 1 overflows usize)
size_minus_one(size) == size - 1

\* let one_over_size = 1.0 / (size_minus_one as f32)
one_over_size(size) == Div(FromInt(1), FromInt(size_minus_one(size)))

\* g as f32 * one_over_size
Coord(g, size) == Mul(FromInt(g), one_over_size(size))

\* for y in 0..size { for x in 0..size { layer[y*size + x] = sample(x, y, pz) } }
SampleLayer(source, size, pz) ==
    [k \in 0 .. size * size - 1 |->
        Sample(source, Coord(k % size, size), Coord(k \div size, size), pz)]

\* Mutant of LayerZero: layer zero is not sampled again, the slice a
\* previous call left in layers[0] is used.
LayerZeroStale(lay, source, size) == lay

\* "Cache layer zero of distance field values": sampled at z = 0.0
LayerZero(lay, source, size) ==
    <<SampleLayer(source, size, FromInt(0)), lay[2]>>

\* "Cache layer N+1 of isosurface values": sampled at (z+1) * one_over_size
LayerNext(lay, source, size, z) ==
    <<lay[1], SampleLayer(source, size, Coord(z + 1, size))>>

\* for z in 0..self.size
SliceRange(size) == 0 .. size - 1

\* for y in 0..size_minus_one, for x in 0..size_minus_one
CellRange(size) == 0 .. size_minus_one(size) - 1

\* corners[i]
CornerPosition(size, x, y, z, i) ==
    <<Coord(x + CORNERS[i][1], size),
      Coord(y + CORNERS[i][2], size),
      Coord(z + CORNERS[i][3], size)>>

\* values[i] = self.layers[CORNERS[i][2]][(y + CORNERS[i][1]) * size + x + CORNERS[i][0]]
CornerValue(lay, size, x, y, i) ==
    lay[CORNERS[i][3] + 1][(y + CORNERS[i][2]) * size + x + CORNERS[i][1]]

RECURSIVE CubeBitsStrict(_, _)
CubeBitsStrict(vals, i) ==
    IF i = 8 THEN 0
    ELSE (IF LeZero(vals[i]) /\ vals[i] # FromInt(0) THEN 2 ^ i ELSE 0)
            + CubeBitsStrict(vals, i + 1)

\* Mutant of CubeIndex: values[i] < 0.0, a value of exactly 0 is outside.
CubeIndexStrict(vals) == CubeBitsStrict(vals, 0)

RECURSIVE CubeBits(_, _)
CubeBits(vals, i) ==
    IF i = 8 THEN 0
    ELSE (IF LeZero(vals[i]) THEN 2 ^ i ELSE 0) + CubeBits(vals, i + 1)

\* cube_index |= 1 << i for every corner with values[i] <= 0.0
CubeIndex(vals) == CubeBits(vals, 0)

\* TRIANGLE_CONNECTION[cube_index][k]
TriangleEntry(cube_index, k) == TRIANGLE_CONNECTION[cube_index + 1][k + 1]

\* the triangle loop ends: i reached 5 or the table holds a sentinel
TrianglesDone(cube_index, i) ==
    i >= MaxTriangles \/ TriangleEntry(cube_index, 3 * i) < 0

\* if cached_index > 0
IsCacheHit(cached_index) == cached_index > 0

\* Mutant of PushIndex: the counter is incremented before it is pushed.
PushIndexIncremented(indices, index) == Append(indices, index + 1)

\* indices.push(index)
PushIndex(indices, index) == Append(indices, index)

\* Mutant of NextIndex: the counter skips a number.
NextIndexSkipping(index) == index + 2

\* index += 1 (u32)
NextIndex(index) == index + 1

\* the closure handed to extract_impl by extract / extract_with_normals
EmitVertex(vertices, source, with_normals, p) ==
    IF with_normals
    THEN vertices \o p \o SampleNormal(source, p[1], p[2], p[3])
    ELSE vertices \o p

\* the interpolated crossing point on edge vert of the cube
EdgeVertex(size, vals, x, y, z, vert) ==
    LET u == EDGE_CONNECTION[vert][1]
        v == EDGE_CONNECTION[vert][2]
        offset == get_offset(vals[u], vals[v])
        cu == CornerPosition(size, x, y, z, u)
        cv == CornerPosition(size, x, y, z, v)
    IN  <<interpolate(cu[1], cv[1], offset),
          interpolate(cu[2], cv[2], offset),
          interpolate(cu[3], cv[3], offset)>>

\* Mutant of SwapLayers: the two buffers keep their roles.
SwapLayersOmitted(lay) == lay

\* self.layers.swap(0, 1)
SwapLayers(lay) == <<lay[2], lay[1]>>

\* ------------------------------------------------------------- state

VARIABLES
    pc,            \* where the program is: "new", "idle", inside extract_impl
                   \* ("layer", "cube", "tri", "row_end", "layer_end"), "panicked"
    source,        \* the caller's Source
    size,          \* MarchingCubes.size
    layers,        \* MarchingCubes.layers: <<layers[0], layers[1]>>
    calls,         \* extract calls completed on this instance
    with_normals,  \* the running call is extract_with_normals
    z, y, x,       \* the loop counters of extract_impl
    i, j,          \* triangle i, vertex j of the cube
    values,        \* values[0..7]
    cube_index,
    index,         \* let mut index = 0u32
    index_cache,   \* let mut index_cache = IndexCache::new(size)
    vertices,      \* the caller's vertex buffer
    indices,       \* the caller's index buffer
    \* observations of the running call
    slices,        \* z argument of source.sample, one entry per sampled slice
    cubes,         \* origins of the cubes classified, in order
    puts,          \* the index_cache.put calls, in order
    n_emitted,     \* calls of the vertex closure
    last,          \* what the latest edge lookup of the cube did
    held,          \* an IndexCache fed index + 1 at every put: 0 is only "absent"
    cell_start,    \* buffer lengths when the cube was classified
    finished       \* outputs of the completed calls

vars ==
    <<pc, source, size, layers, calls, with_normals, z, y, x, i, j, values,
      cube_index, index, index_cache, vertices, indices, slices, cubes, puts,
      n_emitted, last, held, cell_start, finished>>

program == <<size, layers, with_normals, z, y, x, i, j, values, cube_index,
             index, index_cache, vertices, indices>>

observed == <<slices, cubes, puts, n_emitted, last, held, cell_start>>

ZeroValues == [c \in 0 .. 7 |-> FromInt(0)]

NoLookup ==
    [kind |-> "none", edge |-> 0, held |-> 0, pushed |-> 0,
     index_before |-> 0, vertices_before |-> 0]

NoCell == [indices |-> 0, emitted |-> 0, puts |-> 0]

Init ==
    /\ pc = "new"
    /\ source \in Sources
    /\ size = 0
    /\ layers = <<<<>>, <<>>>>
    /\ calls = 0
    /\ with_normals = FALSE
    /\ z = 0 /\ y = 0 /\ x = 0 /\ i = 0 /\ j = 0
    /\ values = ZeroValues
    /\ cube_index = 0
    /\ index = 0
    /\ index_cache = IndexCacheNew(0)
    /\ vertices = <<>>
    /\ indices = <<>>
    /\ slices = <<>>
    /\ cubes = <<>>
    /\ puts = <<>>
    /\ n_emitted = 0
    /\ last = NoLookup
    /\ held = IndexCacheNew(0)
    /\ cell_start = NoCell
    /\ finished = <<>>

\* MarchingCubes::new(size): any usize is accepted.
NewLayers(s) ==
    <<[k \in 0 .. s * s - 1 |-> FromInt(0)], [k \in 0 .. s * s - 1 |-> FromInt(0)]>>

New ==
    /\ pc = "new"
    /\ \E s \in 0 .. MaxSize :
        /\ size' = s
        /\ layers' = NewLayers(s)
    /\ pc' = "idle"
    /\ UNCHANGED <<source, calls, with_normals, z, y, x, i, j, values,
                   cube_index, index, index_cache, vertices, indices,
                   finished>>
    /\ UNCHANGED observed

\* extract_impl returns to the caller, who keeps the two buffers.
Return ==
    /\ pc' = "idle"
    /\ calls' = calls + 1
    /\ finished' = Append(finished,
            [with_normals |-> with_normals, vertices |-> vertices',
             indices |-> indices'])

\* Lines 86-102 of extract_impl, entered with fresh empty buffers.
ExtractImpl(normals) ==
    /\ pc = "idle"
    /\ calls < MaxCalls
    /\ with_normals' = normals
    /\ vertices' = <<>>
    /\ indices' = <<>>
    /\ layers' = LayerZero(layers, source, size)
    /\ slices' = IF size > 0 THEN <<FromInt(0)>> ELSE <<>>
    /\ values' = ZeroValues
    /\ index_cache' = IndexCacheNew(size)
    /\ held' = IndexCacheNew(size)
    /\ index' = 0
    /\ z' = 0 /\ y' = 0 /\ x' = 0 /\ i' = 0 /\ j' = 0
    /\ cube_index' = 0
    /\ cubes' = <<>>
    /\ puts' = <<>>
    /\ n_emitted' = 0
    /\ last' = NoLookup
    /\ cell_start' = NoCell
    /\ UNCHANGED <<source, size>>
    /\ IF 0 \in SliceRange(size)
       THEN pc' = "layer" /\ UNCHANGED <<calls, finished>>
       ELSE Return

\* pub fn extract.  With size = 0 this is the build without overflow checks:
\* size - 1 wraps, every loop over 0..size is empty.
Extract == ExtractImpl(FALSE)

\* pub fn extract_with_normals
ExtractWithNormals == ExtractImpl(TRUE)

\* size = 0 in a build with overflow checks: self.size - 1 panics.
ExtractOverflow ==
    /\ pc = "idle"
    /\ calls < MaxCalls
    /\ size = 0
    /\ pc' = "panicked"
    /\ UNCHANGED <<source, calls, finished>>
    /\ UNCHANGED program
    /\ UNCHANGED observed

\* Lines 106-113: fill layers[1] with the slice z + 1.
SampleNextLayer ==
    /\ pc = "layer"
    /\ layers' = LayerNext(layers, source, size, z)
    /\ slices' = Append(slices, Coord(z + 1, size))
    /\ y' = 0 /\ x' = 0
    /\ pc' = IF 0 \in CellRange(size) THEN "cube" ELSE "layer_end"
    /\ UNCHANGED <<source, size, calls, with_normals, z, i, j, values,
                   cube_index, index, index_cache, vertices, indices,
                   cubes, puts, n_emitted, last, held, cell_start, finished>>

\* Lines 118-132: gather the corner values and build the cube index.
Classify ==
    /\ pc = "cube"
    /\ values' = [c \in 0 .. 7 |-> CornerValue(layers, size, x, y, c)]
    /\ cube_index' = CubeIndex(values')
    /\ i' = 0 /\ j' = 0
    /\ cubes' = Append(cubes, <<x, y, z>>)
    /\ last' = NoLookup
    /\ cell_start' = [indices |-> Len(indices), emitted |-> n_emitted,
                      puts |-> Len(puts)]
    /\ pc' = "tri"
    /\ UNCHANGED <<source, size, layers, calls, with_normals, z, y, x, index,
                   index_cache, vertices, indices, slices, puts, n_emitted,
                   held, finished>>

\* the edge id of vertex j of triangle i
Vert == TriangleEntry(cube_index, 3 * i + j)

NextVertex ==
    /\ j' = (j + 1) % 3
    /\ i' = IF j = 2 THEN i + 1 ELSE i

\* Lines 141-143: the cache answers an index > 0, which is reused.
CacheHit ==
    /\ pc = "tri"
    /\ ~TrianglesDone(cube_index, i)
    /\ LET cached_index == IndexCacheGet(index_cache, size, x, y, Vert)
       IN  /\ IsCacheHit(cached_index)
           /\ indices' = PushIndex(indices, cached_index)
           /\ last' = [kind |-> "hit", edge |-> Vert,
                       held |-> IndexCacheGet(held, size, x, y, Vert),
                       pushed |-> cached_index, index_before |-> index,
                       vertices_before |-> Len(vertices)]
    /\ NextVertex
    /\ UNCHANGED <<pc, source, size, layers, calls, with_normals, z, y, x,
                   values, cube_index, index, index_cache, vertices, slices,
                   cubes, puts, n_emitted, held, cell_start, finished>>

\* Lines 144-158: otherwise a new vertex is numbered, cached and emitted.
CacheMiss ==
    /\ pc = "tri"
    /\ ~TrianglesDone(cube_index, i)
    /\ LET cached_index == IndexCacheGet(index_cache, size, x, y, Vert)
       IN  /\ ~IsCacheHit(cached_index)
           /\ index_cache' = IndexCachePut(index_cache, size, x, y, Vert, index)
           /\ indices' = PushIndex(indices, index)
           /\ index' = NextIndex(index)
           /\ vertices' = EmitVertex(vertices, source, with_normals,
                                     EdgeVertex(size, values, x, y, z, Vert))
           /\ puts' = Append(puts, [x |-> x, y |-> y, z |-> z, edge |-> Vert,
                                    index |-> index])
           /\ n_emitted' = n_emitted + 1
           /\ held' = IndexCachePut(held, size, x, y, Vert, index + 1)
           /\ last' = [kind |-> "miss", edge |-> Vert,
                       held |-> IndexCacheGet(held, size, x, y, Vert),
                       pushed |-> index, index_before |-> index,
                       vertices_before |-> Len(vertices)]
    /\ NextVertex
    /\ UNCHANGED <<pc, source, size, layers, calls, with_normals, z, y, x,
                   values, cube_index, slices, cubes, cell_start, finished>>

\* Line 161: the triangles of the cube are done; index_cache.advance_cell().
AdvanceCell ==
    /\ pc = "tri"
    /\ TrianglesDone(cube_index, i)
    /\ index_cache' = IndexCacheAdvanceCell(index_cache)
    /\ held' = IndexCacheAdvanceCell(held)
    /\ IF x + 1 \in CellRange(size)
       THEN x' = x + 1 /\ pc' = "cube"
       ELSE x' = x /\ pc' = "row_end"
    /\ UNCHANGED <<source, size, layers, calls, with_normals, z, y, i, j,
                   values, cube_index, index, vertices, indices, slices,
                   cubes, puts, n_emitted, last, cell_start, finished>>

\* Line 163: the row is done; index_cache.advance_row().
AdvanceRow ==
    /\ pc = "row_end"
    /\ index_cache' = IndexCacheAdvanceRow(index_cache, size)
    /\ held' = IndexCacheAdvanceRow(held, size)
    /\ IF y + 1 \in CellRange(size)
       THEN y' = y + 1 /\ x' = 0 /\ pc' = "cube"
       ELSE y' = y /\ x' = x /\ pc' = "layer_end"
    /\ UNCHANGED <<source, size, layers, calls, with_normals, z, i, j,
                   values, cube_index, index, vertices, indices, slices,
                   cubes, puts, n_emitted, last, cell_start, finished>>

\* Lines 165-167: index_cache.advance_layer(), swap the layers, next z.
AdvanceLayer ==
    /\ pc = "layer_end"
    /\ index_cache' = IndexCacheAdvanceLayer(index_cache, size)
    /\ held' = IndexCacheAdvanceLayer(held, size)
    /\ layers' = SwapLayers(layers)
    /\ UNCHANGED <<source, size, with_normals, y, x, i, j, values,
                   cube_index, index, vertices, indices, slices, cubes, puts,
                   n_emitted, last, cell_start>>
    /\ IF z + 1 \in SliceRange(size)
       THEN z' = z + 1 /\ pc' = "layer" /\ UNCHANGED <<calls, finished>>
       ELSE z' = z /\ Return

Next ==
    \/ New
    \/ Extract
    \/ ExtractWithNormals
    \/ ExtractOverflow
    \/ SampleNextLayer
    \/ Classify
    \/ CacheHit
    \/ CacheMiss
    \/ AdvanceCell
    \/ AdvanceRow
    \/ AdvanceLayer

Spec == Init /\ [][Next]_vars

InCall == pc \in {"layer", "cube", "tri", "row_end", "layer_end"}

\* ------------------------------------------------------------ properties

\* The field value at grid point (gx, gy, gz), in closed form: the plane
\* a*x + b*y + c*z - d/2 at (gx, gy, gz) / (size - 1).
GridSample(gx, gy, gz) ==
    Real(2 * (source.a * gx + source.b * gy + source.c * gz)
            - source.d * (size - 1),
         2 * (size - 1))

\* 0 <= r <= 1
InUnitRange(r) == r[2] > 0 /\ 0 <= r[1] /\ r[1] <= r[2]

\* floats per emitted vertex in the running call
GroupSize == IF with_normals THEN 6 ELSE 3

\* bit c of the cube index
Bit(n, c) == (n \div (2 ^ c)) % 2

AllInside == \A c \in 0 .. 7 : LeZero(values[c])

AllOutside == \A c \in 0 .. 7 : ~LeZero(values[c])

\* C1: an edge whose vertex the dedup cache still holds (put earlier in this
\* call, whatever its index, 0 included) is answered with that index and
\* emits no new vertex.
C1_HeldEdgeIsReused ==
    (last.kind # "none" /\ last.held > 0)
        => /\ last.kind = "hit"
           /\ last.pushed = last.held - 1
           /\ Len(vertices) = last.vertices_before

\* C2: with size >= 2 every source.sample call of a call of extract has its
\* three coordinates in [0, 1].
C2_SamplesInUnitCube ==
    (size >= 2 /\ slices # <<>>)
        => /\ \A g \in 0 .. size - 1 : InUnitRange(Coord(g, size))
           /\ \A k \in DOMAIN slices : InUnitRange(slices[k])

\* C3: with size >= 2 the cubes classified by one call are the cells of the
\* (size-1)^3 grid, each once, x fastest, then y, then z, and a finished call
\* has visited them all.
C3_EveryCellOnce ==
    size >= 2 =>
        LET n == size - 1
        IN  /\ Len(cubes) <= n * n * n
            /\ \A k \in DOMAIN cubes :
                   cubes[k] = <<(k - 1) % n, ((k - 1) \div n) % n,
                                (k - 1) \div (n * n)>>
            /\ (pc = "idle" /\ calls > 0) => Len(cubes) = n * n * n

\* C4: whenever the index buffer holds whole triangles, each of its values
\* is below the number of vertices emitted so far in the call.
C4_NoForwardReference ==
    (InCall /\ Len(indices) % 3 = 0)
        => \A k \in DOMAIN indices : indices[k] < n_emitted

C4_Witness ==
    /\ InCall
    /\ Len(indices) >= 6
    /\ Len(indices) % 3 = 0
    /\ last.kind = "hit"

\* C5: an extractor exists only with size >= 2: new rejects 0 and 1.
C5_NewRejectsSmallSize == pc # "new" => size >= 2

\* C6: two completed calls of the same extraction mode on one instance, with
\* the same source and fresh buffers, leave equal vertex and index buffers.
C6_Idempotent ==
    \A a, b \in DOMAIN finished :
        finished[a].with_normals = finished[b].with_normals
            => /\ finished[a].vertices = finished[b].vertices
               /\ finished[a].indices = finished[b].indices

C6_Witness ==
    /\ Len(finished) = 2
    /\ ~finished[1].with_normals
    /\ ~finished[2].with_normals
    /\ finished[2].indices # <<>>
    /\ source.c # 0

\* C7: bit c of the cube index is set iff values[c] <= 0, and a cube whose
\* corners are all inside or all outside appends no index, emits no vertex
\* and makes no put.
C7_CubeIndexAndUniformCubes ==
    pc = "tri" =>
        /\ \A c \in 0 .. 7 : (Bit(cube_index, c) = 1) <=> LeZero(values[c])
        /\ (AllInside \/ AllOutside)
              => /\ Len(indices) = cell_start.indices
                 /\ n_emitted = cell_start.emitted
                 /\ Len(vertices) = GroupSize * cell_start.emitted
                 /\ Len(puts) = cell_start.puts

C7_Witness ==
    /\ pc = "tri"
    /\ AllInside
    /\ \E c \in 0 .. 7 : values[c] = FromInt(0)
    /\ TrianglesDone(cube_index, i)
    /\ indices # <<>>

\* C8: within a call no key (x, y, edge) of a z-layer is put twice.
C8_PutOncePerKey ==
    \A a, b \in DOMAIN puts :
        (/\ puts[a].x = puts[b].x
         /\ puts[a].y = puts[b].y
         /\ puts[a].z = puts[b].z
         /\ puts[a].edge = puts[b].edge) => a = b

\* C9: when the cube at (x, y, z) is about to be classified, layers[0] is
\* the slice z and layers[1] the slice z + 1 of the field and z + 2 slices
\* have been sampled (the swap hands the slice over, nothing is sampled
\* again); right after classification each corner value is the field at
\* the corner's grid point.
C9_LayerRoles ==
    /\ pc = "cube" =>
          /\ \A gx, gy \in 0 .. size - 1 :
                /\ layers[1][gy * size + gx] = GridSample(gx, gy, z)
                /\ layers[2][gy * size + gx] = GridSample(gx, gy, z + 1)
          /\ Len(slices) = z + 2
    /\ (pc = "tri" /\ i = 0 /\ j = 0) =>
          \A c \in 0 .. 7 :
              values[c] = GridSample(x + CORNERS[c][1], y + CORNERS[c][2],
                                     z + CORNERS[c][3])

C9_Witness ==
    /\ pc = "tri"
    /\ z >= 1
    /\ source.c # 0
    /\ ~AllInside /\ ~AllOutside

\* C10: in a call the counter equals the vertices emitted and the puts made;
\* put k carries index k - 1; a miss pushes the counter's value, adds one to
\* it and emits one vertex group; a hit changes neither counter nor vertices.
C10_VertexNumbering ==
    InCall =>
        /\ index = n_emitted
        /\ index = Len(puts)
        /\ Len(vertices) = GroupSize * n_emitted
        /\ \A k \in DOMAIN puts : puts[k].index = k - 1
        /\ last.kind = "hit" =>
              /\ index = last.index_before
              /\ Len(vertices) = last.vertices_before
        /\ last.kind = "miss" =>
              /\ indices[Len(indices)] = last.index_before
              /\ index = last.index_before + 1
              /\ Len(vertices) = last.vertices_before + GroupSize

C10_Witness ==
    /\ InCall
    /\ calls = 1
    /\ with_normals
    /\ last.kind = "miss"
    /\ index >= 3
    /\ \E k \in DOMAIN indices : k < Len(indices) /\ indices[k] = indices[Len(indices)] - 1

=============================================================================
